---- MODULE Spec2Model ----
(***************************************************************************)
(* Model of the lexer package (lexer.go): a Lexer owns an input, an        *)
(* ordered list of token matchers, a working input (cursor), the current   *)
(* token and an error slot.  Scan tries the matchers in order on the       *)
(* working input; AddMatcher appends a matcher; Reset rewinds.             *)
(*                                                                         *)
(* Bytes are one-character strings, byte slices and Go strings are         *)
(* sequences of bytes.  A pointer (to a Token, an error) is a sequence of   *)
(* length at most one: <<>> is nil.                                        *)
(***************************************************************************)
EXTENDS Integers, Sequences, FiniteSets, TLC

VARIABLES
    Input,          \* Lexer.Input: string being scanned
    Matchers,       \* Lexer.Matchers: sequence of token matchers
    currentInput,   \* Lexer.currentInput: current working input
    currentToken,   \* Lexer.currentToken: <<>> (nil) or <<token>>
    Error,          \* Lexer.Error: <<>> (nil) or <<error>>
    lastOp,         \* history: the last call made ("New", "AddMatcher", "Scan", "Reset")
    ret,            \* history: the value the last Scan call returned
    passes,         \* history: the passes over the matcher list of the last Scan call
    pre,            \* history: currentInput, currentToken, Error, Matchers before the last call
    tokens,         \* history: the tokens the Scan calls produced since the last Reset
    consumed,       \* history: token texts and skipped spans since the last Reset, concatenated
    scanned,        \* history: Scan was called since the last Reset
    lateAdd         \* history: AddMatcher was called after a Scan since the last Reset

vars == <<Input, Matchers, currentInput, currentToken, Error,
          lastOp, ret, passes, pre, tokens, consumed, scanned, lateAdd>>

----------------------------------------------------------------------------
(* Bounds of the model *)

\* longest enumerated input
MaxLen == 2
\* AddMatcher is not called any more on a list of this many matchers
MaxMatchers == 2
\* Scan is not called any more once this many tokens were produced since Reset
MaxTokens == 4

----------------------------------------------------------------------------
(* Bytes, byte classes and strings *)

Letters == {"a", "c", "e", "i", "p", "r"}
Digits == {"1", "2", "4"}
Spaces == {" "}
\* \w: letters, digits and underscore
WordChars == Letters \cup Digits \cup {"_"}
\* the bytes the enumerated inputs are built from
Alphabet == {"a", "1", " "}

\* F(v), with v evaluated once
Bind(v, F(_)) == CHOOSE y \in {F(x) : x \in {v}} : TRUE

Drop(s, n) == SubSeq(s, n + 1, Len(s))
Take(s, n) == SubSeq(s, 1, n)

RECURSIVE Flatten(_)
Flatten(ss) == IF ss = <<>> THEN <<>> ELSE Head(ss) \o Flatten(Tail(ss))

SeqsUpTo(S, n) == UNION {[1..k -> S] : k \in 0..n}

\* `price 12`
Price12 == <<"p", "r", "i", "c", "e", " ", "1", "2">>
\* `price $12.4`
PriceDollar == <<"p", "r", "i", "c", "e", " ", "$", "1", "2", ".", "4">>

\* the texts a lexer is constructed on
Inputs == SeqsUpTo(Alphabet, MaxLen) \cup {Price12, PriceDollar}

----------------------------------------------------------------------------
(* Patterns: a pattern is a sequence of atoms, each a byte class that is   *)
(* matched once or (plus) one or more times, greedily; anchored says that  *)
(* the pattern text starts with ^.                                         *)

Atom(class, plus) == [class |-> class, plus |-> plus]
Pattern(anchored, atoms) == [anchored |-> anchored, atoms |-> atoms]

\* length of the longest run of bytes of class at the start of s
RECURSIVE RunLen(_, _)
RunLen(class, s) ==
    IF s = <<>> \/ Head(s) \notin class THEN 0 ELSE 1 + RunLen(class, Tail(s))

\* length of the match of atoms at the start of s, or -1
RECURSIVE MatchAt(_, _)
MatchAt(atoms, s) ==
    IF atoms = <<>> THEN 0
    ELSE Bind(RunLen(Head(atoms).class, s), LAMBDA n :
            IF n = 0 THEN -1
            ELSE Bind(IF Head(atoms).plus THEN n ELSE 1, LAMBDA k :
                    Bind(MatchAt(Tail(atoms), Drop(s, k)), LAMBDA rest :
                        IF rest < 0 THEN -1 ELSE k + rest)))

\* regexp.Regexp.Find: the leftmost match in s (its offset and length), found
\* telling a match from nil; an anchored pattern matches at the start only
RECURSIVE FindFrom(_, _, _)
FindFrom(p, s, i) ==
    IF i > Len(s) THEN [found |-> FALSE, start |-> 0, len |-> 0]
    ELSE Bind(MatchAt(p.atoms, Drop(s, i)), LAMBDA n :
            IF n >= 0 THEN [found |-> TRUE, start |-> i, len |-> n]
            ELSE IF p.anchored THEN [found |-> FALSE, start |-> 0, len |-> 0]
            ELSE FindFrom(p, s, i + 1))

Find(p, s) == FindFrom(p, s, 0)

\* a variant that leaves the pattern as the caller wrote it
normalizePatternNoAnchor(p) == p

\* normalizePattern: prepend ^ unless the pattern starts with it
normalizePattern(p) ==
    IF ~p.anchored THEN [p EXCEPT !.anchored = TRUE] ELSE p

----------------------------------------------------------------------------
(* Matchers: what a TokenMatcher returns on an input *)

NilName == "nil"

Result(matched, shift, name, text) ==
    [matched |-> matched, shift |-> shift, name |-> name, text |-> text]

\* the zero values of the named results (a bare return)
NoResult == Result(FALSE, 0, NilName, <<>>)

\* the closure SkipIfMatches(pattern) returns
SkipIfMatches(pattern, input) ==
    Bind(Find(normalizePattern(pattern), input), LAMBDA m :
        IF ~m.found THEN NoResult
        ELSE Result(FALSE, m.len, NilName, <<>>))

\* the closure TokenizeIfMatches(pattern, tokenName) returns
TokenizeIfMatches(pattern, tokenName, input) ==
    Bind(Find(normalizePattern(pattern), input), LAMBDA m :
        IF ~m.found THEN NoResult
        ELSE Result(TRUE, m.len, tokenName, SubSeq(input, m.start + 1, m.start + m.len)))

\* ^\$(\d+(?:\.\d+))
PricePattern ==
    Pattern(TRUE, <<Atom({"$"}, FALSE), Atom(Digits, TRUE), Atom({"."}, FALSE), Atom(Digits, TRUE)>>)

\* the custom matcher of TestLexer_Scan2: consumes the whole match, the
\* token text is the first submatch (the match without its $)
PriceMatcher(input) ==
    Bind(Find(PricePattern, input), LAMBDA m :
        IF ~m.found THEN NoResult
        ELSE Result(TRUE, m.len, "PRICE", SubSeq(input, m.start + 2, m.start + m.len)))

\* the matcher of TestLexer_AddMatcher: a token of no bytes on every input
ZeroMatcher(input) == Result(TRUE, 0, NilName, <<>>)

\* matcher values: what the constructors were given
MkSkip(pattern) == [kind |-> "skip", pattern |-> pattern, name |-> NilName]
MkTokenize(pattern, name) == [kind |-> "tokenize", pattern |-> pattern, name |-> name]
MkPrice == [kind |-> "price", pattern |-> PricePattern, name |-> "PRICE"]
MkZero == [kind |-> "zero", pattern |-> Pattern(TRUE, <<>>), name |-> NilName]

\* TokenizeIfMatches(`\w+`, "WORD")
TokWord == MkTokenize(Pattern(FALSE, <<Atom(WordChars, TRUE)>>), "WORD")
\* SkipIfMatches(`\s+`)
SkipSpace == MkSkip(Pattern(FALSE, <<Atom(Spaces, TRUE)>>))
\* TokenizeIfMatches(`\d+`, "PRICE")
TokDigits == MkTokenize(Pattern(FALSE, <<Atom(Digits, TRUE)>>), "PRICE")

\* the matchers AddMatcher is called with
MatcherPool == {TokWord, SkipSpace, TokDigits, MkPrice, MkZero}

\* the matcher list of ExampleNewLexer
ExampleMatchers == <<TokWord, SkipSpace, TokDigits>>
\* the matcher list of TestLexer_Scan2 and ExampleNewLexerWithMatchers
Scan2Matchers == <<TokWord, SkipSpace, MkPrice>>

\* the matcher lists a lexer is constructed with
MatcherLists == {<<>>, ExampleMatchers, Scan2Matchers}

\* fn(input): the call of a matcher value
Call(fn, input) ==
    CASE fn.kind = "skip" -> SkipIfMatches(fn.pattern, input)
      [] fn.kind = "tokenize" -> TokenizeIfMatches(fn.pattern, fn.name, input)
      [] fn.kind = "price" -> PriceMatcher(input)
      [] OTHER -> ZeroMatcher(input)

----------------------------------------------------------------------------
(* The Lexer *)

NilToken == <<>>
NoError == <<>>

\* NewToken: a pointer to a fresh Token
NewToken(name, text) == <<[Name |-> name, Text |-> text]>>

\* the format of the error of a failed scan, without its verb
cantMatchErrorMessage == "Can't match any existed matchers for the following text: "

\* the %q verb on the bytes of the model: the text between double quotes
\* (none of the bytes of the model needs an escape)
Quote(s) == <<"\"">> \o s \o <<"\"">>
Unquote(q) == SubSeq(q, 2, Len(q) - 1)

\* errors.New(fmt.Sprintf(cantMatchErrorMessage, string(input)))
CantMatchError(input) == <<[format |-> cantMatchErrorMessage, text |-> Quote(input)]>>

\* the lexer as a value
Self == [Input |-> Input, Matchers |-> Matchers, currentInput |-> currentInput,
         currentToken |-> currentToken, Error |-> Error]

\* a variant that leaves the token of the previous call in place
KeepToken(l) == l

\* l.currentToken = nil, the first statement of Scan
ClearToken(l) == [l EXCEPT !.currentToken = NilToken]

\* a variant that cuts one byte more than the matcher asked for
AdvanceOneMore(input, shift) ==
    IF shift > 0 THEN Drop(input, shift + 1) ELSE input

\* a variant that keeps the matched bytes instead of what follows them
AdvanceKeepsPrefix(input, shift) ==
    IF shift > 0 THEN Take(input, shift) ELSE input

\* if shift > 0 { l.currentInput = l.currentInput[shift:] }
Advance(input, shift) ==
    IF shift > 0 THEN Drop(input, shift) ELSE input

\* a variant of the loop that lets the last firing matcher decide
RECURSIVE MatchLoopLastWins(_, _, _, _)
MatchLoopLastWins(ms, i, input, last) ==
    IF i > Len(ms) THEN last
    ELSE Bind(Call(ms[i], input), LAMBDA r :
            IF r.matched \/ r.shift > 0
            THEN MatchLoopLastWins(ms, i + 1, input,
                    [res |-> r, idx |-> i, rest |-> Advance(input, r.shift)])
            ELSE MatchLoopLastWins(ms, i + 1, input, last))

\* a variant of the loop that moves the cursor by the length of the token
\* text when a token is matched
RECURSIVE MatchLoopAdvanceByText(_, _, _, _)
MatchLoopAdvanceByText(ms, i, input, last) ==
    IF i > Len(ms) THEN last
    ELSE Bind(Call(ms[i], input), LAMBDA r :
            Bind([res |-> r, idx |-> 0,
                  rest |-> IF r.matched THEN Drop(input, Len(r.text))
                           ELSE Advance(input, r.shift)], LAMBDA now :
                IF r.matched \/ r.shift > 0
                THEN [now EXCEPT !.idx = i]
                ELSE MatchLoopAdvanceByText(ms, i + 1, now.rest, now)))

\* a variant of the loop that moves the cursor for skips only
RECURSIVE MatchLoopNoAdvanceOnMatch(_, _, _, _)
MatchLoopNoAdvanceOnMatch(ms, i, input, last) ==
    IF i > Len(ms) THEN last
    ELSE Bind(Call(ms[i], input), LAMBDA r :
            Bind([res |-> r, idx |-> 0,
                  rest |-> IF r.matched THEN input ELSE Advance(input, r.shift)], LAMBDA now :
                IF r.matched \/ r.shift > 0
                THEN [now EXCEPT !.idx = i]
                ELSE MatchLoopNoAdvanceOnMatch(ms, i + 1, now.rest, now)))

\* the loop F of Scan from matcher i on: the results of the last matcher
\* called (last, when none is left), the index of the matcher the loop broke
\* at (0: the loop ran to its end) and the working input after the loop
RECURSIVE MatchLoop(_, _, _, _)
MatchLoop(ms, i, input, last) ==
    IF i > Len(ms) THEN last
    ELSE Bind(Call(ms[i], input), LAMBDA r :
            Bind([res |-> r, idx |-> 0, rest |-> Advance(input, r.shift)], LAMBDA now :
                IF r.matched \/ r.shift > 0
                THEN [now EXCEPT !.idx = i]
                ELSE MatchLoop(ms, i + 1, now.rest, now)))

\* a variant that reports the whole input instead of what is left of it
NoMatchWholeInput(l) ==
    IF Len(l.currentInput) > 0
    THEN [l EXCEPT !.Error = CantMatchError(l.Input)]
    ELSE l

\* a variant that sets the error on an empty working input too
NoMatchAlways(l) == [l EXCEPT !.Error = CantMatchError(l.currentInput)]

\* a variant that steps over the byte no matcher recognised
NoMatchSkipsByte(l) ==
    IF Len(l.currentInput) > 0
    THEN [l EXCEPT !.Error = CantMatchError(l.currentInput),
                   !.currentInput = Tail(l.currentInput)]
    ELSE l

\* the last branch of Scan: no matcher fired
NoMatch(l) ==
    IF Len(l.currentInput) > 0
    THEN [l EXCEPT !.Error = CantMatchError(l.currentInput)]
    ELSE l

\* one pass of a Scan call, as the history records it
Pass(input, m) ==
    [input |-> input, idx |-> m.idx, matched |-> m.res.matched,
     shift |-> m.res.shift, name |-> m.res.name, text |-> m.res.text]

\* a variant that hands a skip back to the caller instead of scanning on
ScanReturnsAfterSkip(l) ==
    Bind(ClearToken(l), LAMBDA l0 :
    Bind(MatchLoop(l0.Matchers, 1, l0.currentInput,
                   [res |-> NoResult, idx |-> 0, rest |-> l0.currentInput]), LAMBDA m :
    Bind([l0 EXCEPT !.currentInput = m.rest], LAMBDA l1 :
        IF m.res.matched
        THEN [l |-> [l1 EXCEPT !.currentToken = NewToken(m.res.name, m.res.text)],
              ret |-> TRUE, passes |-> <<Pass(l0.currentInput, m)>>]
        ELSE IF m.res.shift > 0
        THEN [l |-> l1, ret |-> FALSE, passes |-> <<Pass(l0.currentInput, m)>>]
        ELSE [l |-> NoMatch(l1), ret |-> FALSE,
              passes |-> <<Pass(l0.currentInput, m)>>])))

\* a variant that tests the shift before the match: it scans on after
\* every pass that consumed something, token or not
RECURSIVE ScanSkipBranchFirst(_)
ScanSkipBranchFirst(l) ==
    Bind(ClearToken(l), LAMBDA l0 :
    Bind(MatchLoop(l0.Matchers, 1, l0.currentInput,
                   [res |-> NoResult, idx |-> 0, rest |-> l0.currentInput]), LAMBDA m :
    Bind([l0 EXCEPT !.currentInput = m.rest], LAMBDA l1 :
        IF m.res.shift > 0
        THEN Bind(ScanSkipBranchFirst(l1), LAMBDA s :
                [s EXCEPT !.passes = <<Pass(l0.currentInput, m)>> \o s.passes])
        ELSE IF m.res.matched
        THEN [l |-> [l1 EXCEPT !.currentToken = NewToken(m.res.name, m.res.text)],
              ret |-> TRUE, passes |-> <<Pass(l0.currentInput, m)>>]
        ELSE [l |-> NoMatch(l1), ret |-> FALSE,
              passes |-> <<Pass(l0.currentInput, m)>>])))

\* a variant that refuses a match of no bytes
RECURSIVE ScanGuardZero(_)
ScanGuardZero(l) ==
    Bind(ClearToken(l), LAMBDA l0 :
    Bind(MatchLoop(l0.Matchers, 1, l0.currentInput,
                   [res |-> NoResult, idx |-> 0, rest |-> l0.currentInput]), LAMBDA m :
    Bind([l0 EXCEPT !.currentInput = m.rest], LAMBDA l1 :
        IF m.res.matched /\ m.res.shift > 0
        THEN [l |-> [l1 EXCEPT !.currentToken = NewToken(m.res.name, m.res.text)],
              ret |-> TRUE, passes |-> <<Pass(l0.currentInput, m)>>]
        ELSE IF m.res.shift > 0
        THEN Bind(ScanGuardZero(l1), LAMBDA s :
                [s EXCEPT !.passes = <<Pass(l0.currentInput, m)>> \o s.passes])
        ELSE [l |-> NoMatch(l1), ret |-> FALSE,
              passes |-> <<Pass(l0.currentInput, m)>>])))

\* a variant that reports false for what it found after a skip
RECURSIVE ScanFalseAfterSkip(_)
ScanFalseAfterSkip(l) ==
    Bind(ClearToken(l), LAMBDA l0 :
    Bind(MatchLoop(l0.Matchers, 1, l0.currentInput,
                   [res |-> NoResult, idx |-> 0, rest |-> l0.currentInput]), LAMBDA m :
    Bind([l0 EXCEPT !.currentInput = m.rest], LAMBDA l1 :
        IF m.res.matched
        THEN [l |-> [l1 EXCEPT !.currentToken = NewToken(m.res.name, m.res.text)],
              ret |-> TRUE, passes |-> <<Pass(l0.currentInput, m)>>]
        ELSE IF m.res.shift > 0
        THEN Bind(ScanFalseAfterSkip(l1), LAMBDA s :
                [s EXCEPT !.ret = FALSE,
                          !.passes = <<Pass(l0.currentInput, m)>> \o s.passes])
        ELSE [l |-> NoMatch(l1), ret |-> FALSE,
              passes |-> <<Pass(l0.currentInput, m)>>])))

\* Scan on the lexer l: the lexer afterwards, the value returned and the
\* passes made
RECURSIVE Scan(_)
Scan(l) ==
    Bind(ClearToken(l), LAMBDA l0 :
    Bind(MatchLoop(l0.Matchers, 1, l0.currentInput,
                   [res |-> NoResult, idx |-> 0, rest |-> l0.currentInput]), LAMBDA m :
    Bind([l0 EXCEPT !.currentInput = m.rest], LAMBDA l1 :
        IF m.res.matched
        THEN [l |-> [l1 EXCEPT !.currentToken = NewToken(m.res.name, m.res.text)],
              ret |-> TRUE, passes |-> <<Pass(l0.currentInput, m)>>]
        ELSE IF m.res.shift > 0
        THEN Bind(Scan(l1), LAMBDA s :
                [s EXCEPT !.passes = <<Pass(l0.currentInput, m)>> \o s.passes])
        ELSE [l |-> NoMatch(l1), ret |-> FALSE,
              passes |-> <<Pass(l0.currentInput, m)>>])))

\* a variant that leaves the error of an earlier failure in place
ResetKeepsError(l) ==
    [l EXCEPT !.currentInput = l.Input, !.currentToken = NilToken]

\* a variant that also starts the matcher list afresh
ResetDropsMatchers(l) ==
    [l EXCEPT !.Error = NoError, !.currentInput = l.Input, !.currentToken = NilToken,
              !.Matchers = <<>>]

\* Reset on the lexer l
Reset(l) ==
    [l EXCEPT !.Error = NoError, !.currentInput = l.Input, !.currentToken = NilToken]

\* a variant that puts the new matcher first
AddMatcherFirst(l, fn) == [l EXCEPT !.Matchers = <<fn>> \o l.Matchers]

\* AddMatcher on the lexer l
AddMatcher(l, fn) == [l EXCEPT !.Matchers = Append(l.Matchers, fn)]

\* NewLexer(text)
NewLexer(text) ==
    Reset([Input |-> text, Matchers |-> <<>>, currentInput |-> <<>>,
           currentToken |-> NilToken, Error |-> NoError])

\* NewLexerWithMatchers(text, matchers), from the i-th matcher on
RECURSIVE AddMatchers(_, _, _)
AddMatchers(l, matchers, i) ==
    IF i > Len(matchers) THEN l
    ELSE AddMatchers(AddMatcher(l, matchers[i]), matchers, i + 1)

NewLexerWithMatchers(text, matchers) == AddMatchers(NewLexer(text), matchers, 1)

----------------------------------------------------------------------------
(* The calls a client makes *)

Snapshot == [currentInput |-> currentInput, currentToken |-> currentToken,
             Error |-> Error, Matchers |-> Matchers]

Store(l) ==
    /\ Input' = l.Input
    /\ Matchers' = l.Matchers
    /\ currentInput' = l.currentInput
    /\ currentToken' = l.currentToken
    /\ Error' = l.Error

\* what the passes of a Scan call took off the working input
Spans(ps) ==
    Flatten([k \in 1..Len(ps) |->
                IF ps[k].matched THEN ps[k].text ELSE Take(ps[k].input, ps[k].shift)])

Init ==
    /\ \E text \in Inputs, matchers \in MatcherLists :
          \E l \in {NewLexerWithMatchers(text, matchers)} :
              /\ Input = l.Input
              /\ Matchers = l.Matchers
              /\ currentInput = l.currentInput
              /\ currentToken = l.currentToken
              /\ Error = l.Error
              /\ pre = [currentInput |-> l.currentInput, currentToken |-> l.currentToken,
                        Error |-> l.Error, Matchers |-> l.Matchers]
    /\ lastOp = "New"
    /\ ret = FALSE
    /\ passes = <<>>
    /\ tokens = <<>>
    /\ consumed = <<>>
    /\ scanned = FALSE
    /\ lateAdd = FALSE

DoAddMatcher ==
    /\ Len(Matchers) < MaxMatchers
    /\ \E fn \in MatcherPool : Store(AddMatcher(Self, fn))
    /\ lastOp' = "AddMatcher"
    /\ pre' = Snapshot
    /\ lateAdd' = (lateAdd \/ scanned)
    /\ UNCHANGED <<ret, passes, tokens, consumed, scanned>>

DoScan ==
    /\ Len(tokens) < MaxTokens
    /\ \E s \in {Scan(Self)} :
           /\ Store(s.l)
           /\ ret' = s.ret
           /\ passes' = s.passes
           /\ tokens' = IF s.ret THEN tokens \o s.l.currentToken ELSE tokens
           /\ consumed' = consumed \o Spans(s.passes)
    /\ lastOp' = "Scan"
    /\ pre' = Snapshot
    /\ scanned' = TRUE
    /\ UNCHANGED lateAdd

DoReset ==
    /\ Store(Reset(Self))
    /\ lastOp' = "Reset"
    /\ pre' = Snapshot
    /\ tokens' = <<>>
    /\ consumed' = <<>>
    /\ scanned' = FALSE
    /\ lateAdd' = FALSE
    /\ UNCHANGED <<ret, passes>>

Next == DoAddMatcher \/ DoScan \/ DoReset

Spec == Init /\ [][Next]_vars

----------------------------------------------------------------------------
(* The loop `for l.Scan() { ... }` on a lexer that was given its matchers *)

\* the matcher lists the loop is run with
LoopMatcherLists == SeqsUpTo(MatcherPool, MaxMatchers) \cup MatcherLists

InitLoop ==
    /\ \E text \in Inputs, matchers \in LoopMatcherLists :
          \E l \in {NewLexerWithMatchers(text, matchers)} :
              /\ Input = l.Input
              /\ Matchers = l.Matchers
              /\ currentInput = l.currentInput
              /\ currentToken = l.currentToken
              /\ Error = l.Error
              /\ pre = [currentInput |-> l.currentInput, currentToken |-> l.currentToken,
                        Error |-> l.Error, Matchers |-> l.Matchers]
    /\ lastOp = "New"
    /\ ret = FALSE
    /\ passes = <<>>
    /\ tokens = <<>>
    /\ consumed = <<>>
    /\ scanned = FALSE
    /\ lateAdd = FALSE

\* the loop calls Scan until it returns false
LoopScan ==
    /\ ~(scanned /\ ~ret)
    /\ DoScan

\* the loop goes on as long as it can: nothing else runs
SpecLoop == InitLoop /\ [][LoopScan]_vars /\ WF_vars(LoopScan)

----------------------------------------------------------------------------
(* Properties *)

LastPass == passes[Len(passes)]

\* the matcher fn fires on input: it reports a match or asks for a shift
Fires(fn, input) == Call(fn, input).matched \/ Call(fn, input).shift > 0

\* C1: after a Scan call the current token is present exactly when the
\* call returned true, and is then the token of the name and text that the
\* matcher the last pass stopped at returns on the input of that pass; a
\* call that returns false leaves no token
C1_TokenIffTrue ==
    lastOp = "Scan" =>
        /\ (currentToken # NilToken) <=> ret
        /\ ret => /\ LastPass.idx \in 1..Len(Matchers)
                  /\ LET r == Call(Matchers[LastPass.idx], LastPass.input)
                     IN  currentToken = <<[Name |-> r.name, Text |-> r.text]>>
        /\ ~ret => currentToken = NilToken

\* a Scan call returned false where the call before had left a token
C1_Witness ==
    /\ lastOp = "Scan"
    /\ ~ret
    /\ pre.currentToken # NilToken
    /\ currentToken = NilToken

\* C2: every pass of a Scan call acts on the first matcher of the list
\* that fires on the input of the pass and on no other: no matcher before
\* it fires, its results decide the token or the skip, and the cursor moves
\* by its shift; a pass that stops at no matcher found none that fires
PassInputAfter(k) ==
    IF k < Len(passes) THEN passes[k + 1].input ELSE currentInput

C2_FirstFiringWins ==
    lastOp = "Scan" =>
        \A k \in 1..Len(passes) :
            LET p == passes[k]
            IN  IF p.idx = 0
                THEN /\ \A j \in 1..Len(Matchers) : ~Fires(Matchers[j], p.input)
                     /\ PassInputAfter(k) = p.input
                ELSE /\ p.idx \in 1..Len(Matchers)
                     /\ Fires(Matchers[p.idx], p.input)
                     /\ \A j \in 1..(p.idx - 1) : ~Fires(Matchers[j], p.input)
                     /\ LET r == Call(Matchers[p.idx], p.input)
                        IN  /\ p.matched = r.matched
                            /\ p.shift = r.shift
                            /\ PassInputAfter(k) = SubSeq(p.input, r.shift + 1, Len(p.input))
                            /\ (k = Len(passes) /\ r.matched) =>
                                  currentToken = <<[Name |-> r.name, Text |-> r.text]>>

\* a pass stopped at a matcher although a later matcher of the list fires
\* on the same input and would have consumed more bytes
C2_Witness ==
    /\ lastOp = "Scan"
    /\ \E k \in 1..Len(passes) :
          /\ passes[k].idx > 0
          /\ \E j \in (passes[k].idx + 1)..Len(Matchers) :
                /\ Fires(Matchers[j], passes[k].input)
                /\ Call(Matchers[j], passes[k].input).shift > passes[k].shift

\* C3: a Scan call whose last pass found no firing matcher on a non-empty
\* input returns false, leaves no token and sets the error to the message
\* that quotes exactly the input left at that point; the failing pass
\* consumes nothing, and what the skips of the earlier passes of the call
\* consumed stays consumed
RECURSIVE SumShifts(_, _)
SumShifts(ps, n) == IF n = 0 THEN 0 ELSE ps[n].shift + SumShifts(ps, n - 1)

C3_NoMatchError ==
    (lastOp = "Scan" /\ LastPass.idx = 0 /\ LastPass.input # <<>>) =>
        /\ ~ret
        /\ currentToken = NilToken
        /\ Len(Error) = 1
        /\ Error[1].format = cantMatchErrorMessage
        /\ Unquote(Error[1].text) = currentInput
        /\ currentInput = LastPass.input
        /\ currentInput =
              SubSeq(pre.currentInput, SumShifts(passes, Len(passes) - 1) + 1,
                     Len(pre.currentInput))

\* a Scan call skipped part of its input and then found no matcher for the
\* rest
C3_Witness ==
    /\ lastOp = "Scan"
    /\ Len(passes) > 1
    /\ LastPass.idx = 0
    /\ LastPass.input # <<>>
    /\ Len(currentInput) < Len(pre.currentInput)
    /\ Error # NoError

\* the states of the lexer: Stuck when the most recent Scan since the
\* last Reset returned false with input left, Exhausted when it returned
\* false with none left, Ready otherwise
Stuck == scanned /\ ~ret /\ currentInput # <<>>
Exhausted == scanned /\ ~ret /\ currentInput = <<>>
Ready == ~Stuck /\ ~Exhausted

\* every matcher of the list consumes what it matches: none reports a
\* match of no bytes (the obligation lexer.go leaves to the caller)
NoZeroLengthMatch ==
    \A j \in 1..Len(Matchers) : \A n \in 0..Len(Input) :
        LET r == Call(Matchers[j], Drop(Input, n))
        IN  r.matched => r.shift > 0

\* C4: the error is present exactly when the lexer is Stuck, after any
\* sequence of AddMatcher, Scan and Reset calls (stated for the matcher
\* lists that never match zero bytes, so that no violation rests on one)
C4_ErrorIffStuck == NoZeroLengthMatch => ((Error # NoError) <=> Stuck)

\* C5: the error and the current token are never both present, after any
\* sequence of AddMatcher, Scan and Reset calls (stated for the matcher
\* lists that never match zero bytes, so that no violation rests on one)
C5_ErrorTokenExclusive ==
    NoZeroLengthMatch => ~(Error # NoError /\ currentToken # NilToken)

\* C6: Reset restores the starting state whatever state it is called in:
\* the working input is the whole input and there is no token and no
\* error, which is the lexer NewLexerWithMatchers builds from the input and
\* the matchers; and a second Reset changes nothing
C6_ResetRestores ==
    /\ lastOp = "Reset" =>
          /\ currentInput = Input
          /\ currentToken = NilToken
          /\ Error = NoError
    /\ Reset(Self) = NewLexerWithMatchers(Input, Matchers)
    /\ Reset(Reset(Self)) = Reset(Self)

\* Reset was called on a Stuck lexer whose cursor had moved
C6_Witness ==
    /\ lastOp = "Reset"
    /\ pre.Error # NoError
    /\ pre.currentInput # Input
    /\ pre.currentInput # <<>>
    /\ Error = NoError

\* C7 as stated: a Scan call on an empty working input returns false, sets
\* no error and leaves no token, whatever matchers are registered
C7_EmptyInputAnyMatchers ==
    (lastOp = "Scan" /\ pre.currentInput = <<>>) =>
        /\ ~ret
        /\ Error = pre.Error
        /\ currentToken = NilToken

\* C7, amended: a Scan call on an empty working input returns false, sets
\* no error, leaves no token and the working input empty, provided no
\* registered matcher reports a match on the empty input
C7_EmptyInput ==
    (/\ lastOp = "Scan"
     /\ pre.currentInput = <<>>
     /\ \A j \in 1..Len(Matchers) : ~Call(Matchers[j], <<>>).matched) =>
        /\ ~ret
        /\ Error = pre.Error
        /\ currentToken = NilToken
        /\ currentInput = <<>>

\* Scan was called on a lexer with matchers whose input had been consumed
\* to the end by a token, and returned false
C7_Witness ==
    /\ lastOp = "Scan"
    /\ pre.currentInput = <<>>
    /\ pre.currentToken # NilToken
    /\ Input # <<>>
    /\ Matchers # <<>>
    /\ \A j \in 1..Len(Matchers) : ~Call(Matchers[j], <<>>).matched
    /\ ~ret

PrefixFaithful(fn) ==
    \A n \in 0..Len(Input) :
        LET in == Drop(Input, n)
            r == Call(fn, in)
        IN  /\ r.shift \in 0..Len(in)
            /\ r.matched => r.text = SubSeq(in, 1, r.shift)

\* the Scan loop has run to a false return that left no error
ScanLoopDone == scanned /\ lastOp = "Scan" /\ ~ret /\ Error = NoError

\* C9: with matchers whose token text is the first shift bytes of their
\* input, the token texts and skipped spans so far, followed by the input
\* still to scan, are the input (no gap, no overlap); when the Scan loop
\* ends without an error they are the whole input and nothing is left
C9_Reconstruct ==
    (\A j \in 1..Len(Matchers) : PrefixFaithful(Matchers[j])) =>
        /\ consumed \o currentInput = Input
        /\ ScanLoopDone => (consumed = Input /\ currentInput = <<>>)

\* the loop went through `price 12` with a skip in the middle: it made two
\* tokens and ended with nothing left
C9_Witness ==
    /\ \A j \in 1..Len(Matchers) : PrefixFaithful(Matchers[j])
    /\ ScanLoopDone
    /\ Input = Price12
    /\ Len(tokens) = 2
    /\ \E j \in 1..Len(Matchers) : Matchers[j].kind = "skip"
    /\ Flatten([k \in 1..Len(tokens) |-> tokens[k].Text]) # Input
    /\ consumed = Input

\* the Scan loop of ExampleNewLexer has ended: the lexer was built on
\* `price 12` with the three matchers of the example, none was added
\* later, and Scan has returned false
ExampleDone ==
    /\ Input = Price12
    /\ Matchers = ExampleMatchers
    /\ ~lateAdd
    /\ scanned
    /\ lastOp = "Scan"
    /\ ~ret

\* C10: the loop of the example produces exactly (WORD, "price") and
\* then (PRICE, "12"), after which Scan returns false
C10_ExampleTokens ==
    ExampleDone =>
        tokens = <<[Name |-> "WORD", Text |-> <<"p", "r", "i", "c", "e">>],
                   [Name |-> "PRICE", Text |-> <<"1", "2">>]>>

\* some matcher of the list fires on the input
SomeFires(input) == \E j \in 1..Len(Matchers) : Fires(Matchers[j], input)

\* C11: a skip is not seen by the caller: every pass of a Scan call but
\* the last is a skip, each followed by a pass at the advanced cursor, and
\* the call returns only with a token (true), with nothing left (false) or
\* with no matcher firing on a non-empty rest (false, with the error); it
\* never returns false while a matcher still fires on what is left
C11_SkipTransparent ==
    lastOp = "Scan" =>
        /\ \A k \in 1..(Len(passes) - 1) :
              /\ ~passes[k].matched
              /\ passes[k].shift > 0
              /\ passes[k + 1].input = Drop(passes[k].input, passes[k].shift)
        /\ passes[1].input = pre.currentInput
        /\ \/ ret /\ currentToken # NilToken /\ LastPass.matched
           \/ ~ret /\ currentInput = <<>> /\ ~SomeFires(currentInput)
           \/ /\ ~ret
              /\ currentInput # <<>>
              /\ ~SomeFires(currentInput)
              /\ Error = CantMatchError(currentInput)
        /\ ~ret => ~SomeFires(currentInput)

\* one Scan call skipped and then produced a token from a second pass
C11_Witness ==
    /\ lastOp = "Scan"
    /\ ret
    /\ Len(passes) = 2
    /\ ~passes[1].matched
    /\ passes[1].shift > 0
    /\ passes[2].matched
    /\ Len(currentInput) < Len(passes[2].input)

\* C12: every pass of a Scan call moves the cursor by exactly the shift
\* the matcher it stopped at returns, matched or not and whatever the
\* length of the token text; a pass with shift 0 (a token of no bytes, or
\* no matcher firing) leaves the cursor where it was
C12_AdvanceByShift ==
    lastOp = "Scan" =>
        \A k \in 1..Len(passes) :
            LET p == passes[k]
                shift == IF p.idx = 0 THEN 0
                         ELSE Call(Matchers[p.idx], p.input).shift
            IN  /\ p.shift = shift
                /\ shift > 0 =>
                      /\ PassInputAfter(k) = Drop(p.input, shift)
                      /\ Len(PassInputAfter(k)) = Len(p.input) - shift
                /\ shift = 0 => PassInputAfter(k) = p.input

\* a token was matched whose text is shorter than the span consumed: the
\* price matcher took `$12.4` and gave `12.4`
C12_Witness ==
    /\ lastOp = "Scan"
    /\ ret
    /\ LastPass.matched
    /\ Len(LastPass.text) < LastPass.shift
    /\ currentInput = Drop(LastPass.input, LastPass.shift)
    /\ currentToken[1].Text = <<"1", "2", ".", "4">>

IsSuffix(s, t) == Len(s) <= Len(t) /\ s = Drop(t, Len(t) - Len(s))

\* every matcher of the list returns a shift between 0 and the length of
\* its input, on every suffix of Input
ShiftsInRange ==
    \A j \in 1..Len(Matchers) : \A n \in 0..Len(Input) :
        Call(Matchers[j], Drop(Input, n)).shift \in 0..(Len(Input) - n)

\* C13: with matchers whose shift stays within their input, the working
\* input is always a suffix of Input; a Scan or AddMatcher call leaves a
\* suffix of what was there before (never more), and only a Reset call
\* moves the cursor back, to the start
C13_CursorForward ==
    ShiftsInRange =>
        /\ IsSuffix(currentInput, Input)
        /\ lastOp \in {"Scan", "AddMatcher"} =>
              /\ IsSuffix(currentInput, pre.currentInput)
              /\ Len(currentInput) <= Len(pre.currentInput)
        /\ lastOp = "AddMatcher" => currentInput = pre.currentInput
        /\ Len(currentInput) > Len(pre.currentInput) =>
              (lastOp = "Reset" /\ currentInput = Input)

\* a Scan call moved the cursor forward from a place past the start, with
\* input still left
C13_Witness ==
    /\ ShiftsInRange
    /\ lastOp = "Scan"
    /\ Len(pre.currentInput) < Len(Input)
    /\ Len(currentInput) < Len(pre.currentInput)
    /\ currentInput # <<>>

\* the passes among the first n of ps that are skips
RECURSIVE CountSkips(_, _)
CountSkips(ps, n) ==
    IF n = 0 THEN 0
    ELSE (IF ~ps[n].matched /\ ps[n].shift > 0 THEN 1 ELSE 0) + CountSkips(ps, n - 1)

\* C14: a Scan call ends after finitely many passes: it starts another
\* pass only after a skip, which leaves strictly less input, so the passes
\* made are the skips plus one, and no more than the length of the input
\* the call started on plus one
C14_ScanTerminates ==
    lastOp = "Scan" =>
        /\ Len(passes) >= 1
        /\ \A k \in 1..(Len(passes) - 1) :
              /\ ~passes[k].matched /\ passes[k].shift > 0
              /\ Len(passes[k + 1].input) < Len(passes[k].input)
        /\ ~(~LastPass.matched /\ LastPass.shift > 0)
        /\ Len(passes) = CountSkips(passes, Len(passes)) + 1
        /\ CountSkips(passes, Len(passes)) <= Len(pre.currentInput)
        /\ Len(passes) <= Len(pre.currentInput) + 1

\* a Scan call made as many passes as its input allows: a skip for every
\* byte it started on, and the pass that found nothing left
C14_Witness ==
    /\ lastOp = "Scan"
    /\ pre.currentInput # <<>>
    /\ Len(passes) = Len(pre.currentInput) + 1
    /\ CountSkips(passes, Len(passes)) = Len(pre.currentInput)
    /\ currentInput = <<>>
    /\ ~ret

\* the loop has ended: Scan has returned false
LoopEnded == scanned /\ lastOp = "Scan" /\ ~ret

\* C15: when no matcher of the list reports a match of no bytes, the loop
\* of Scan calls comes to a false return, having produced no more tokens
\* than Input has bytes, and ends with nothing left and no error
\* (Exhausted) or with the error of what is left (Stuck)
C15_LoopEnds ==
    NoZeroLengthMatch =>
        /\ [](Len(tokens) <= Len(Input))
        /\ <>LoopEnded
        /\ [](LoopEnded =>
                \/ currentInput = <<>> /\ Error = NoError
                \/ currentInput # <<>> /\ Error = CantMatchError(currentInput))

\* the loop ended after a token for every byte of a non-empty input
C15_Witness ==
    /\ NoZeroLengthMatch
    /\ LoopEnded
    /\ Input # <<>>
    /\ Len(tokens) = Len(Input)

\* what the first firing matcher of the list returns at the cursor
FirstFiring ==
    MatchLoop(Matchers, 1, currentInput,
              [res |-> NoResult, idx |-> 0, rest |-> currentInput]).res

\* the first firing matcher at the cursor reports a match of no bytes
StalledHere == FirstFiring.matched /\ FirstFiring.shift = 0

\* the last pass of the Scan call just made ended on a match of no bytes
ZeroLengthScan == lastOp = "Scan" /\ LastPass.matched /\ LastPass.shift = 0

\* C16: Scan does not guard against a match of no bytes. A Scan call whose
\* last pass stops at a matcher returning matched=true, shift=0 returns
\* true with that matcher's token and the cursor where the pass found it;
\* from then on, through any further Scan and AddMatcher calls, the cursor
\* stays, every Scan call returns true after one pass with the same token,
\* and the lexer is neither Exhausted nor Stuck
C16_ZeroLengthStalls ==
    [][/\ ZeroLengthScan' =>
             /\ ret'
             /\ currentToken' = NewToken(LastPass'.name, LastPass'.text)
             /\ currentInput' = LastPass'.input
             /\ StalledHere'
       /\ (StalledHere /\ lastOp' \in {"Scan", "AddMatcher"}) =>
             /\ StalledHere'
             /\ FirstFiring' = FirstFiring
             /\ currentInput' = currentInput
       /\ (StalledHere /\ lastOp' = "Scan") =>
             /\ ret'
             /\ Len(passes') = 1
             /\ currentToken' = NewToken(FirstFiring.name, FirstFiring.text)
             /\ ~Exhausted' /\ ~Stuck'
       /\ (ZeroLengthScan /\ lastOp' = "Scan") =>
             /\ ZeroLengthScan'
             /\ currentToken' = currentToken]_vars

\* Scan returned the token of no bytes a second time, with input left
C16_Witness ==
    /\ ZeroLengthScan
    /\ ret
    /\ Len(tokens) >= 2
    /\ tokens[Len(tokens)] = tokens[Len(tokens) - 1]
    /\ pre.currentToken = currentToken
    /\ pre.currentInput = currentInput
    /\ currentInput # <<>>

\* the index of the first matcher of ms that fires on input, 0 if none does
FirstFiringIndex(ms, input) ==
    IF \E j \in 1..Len(ms) : Fires(ms[j], input)
    THEN CHOOSE j \in 1..Len(ms) :
            /\ Fires(ms[j], input)
            /\ \A k \in 1..(j - 1) : ~Fires(ms[k], input)
    ELSE 0

\* the iterative scan step: a loop that clears the token, passes over the
\* matchers, goes round again on a skip, returns true on a match, and
\* otherwise sets the error if input remains and returns false. One turn of
\* the loop on the lexer l, the next turn being the loop's next iteration.
RECURSIVE ScanIter(_)
ScanIter(l) ==
    Bind([l EXCEPT !.currentToken = <<>>], LAMBDA c :
    Bind(FirstFiringIndex(c.Matchers, c.currentInput), LAMBDA j :
        IF j = 0
        THEN [l |-> IF c.currentInput # <<>>
                    THEN [c EXCEPT !.Error =
                             <<[format |-> cantMatchErrorMessage,
                                text |-> Quote(c.currentInput)]>>]
                    ELSE c,
              ret |-> FALSE]
        ELSE Bind(Call(c.Matchers[j], c.currentInput), LAMBDA r :
             Bind([c EXCEPT !.currentInput = Drop(c.currentInput, r.shift)], LAMBDA a :
                IF r.matched
                THEN [l |-> [a EXCEPT !.currentToken =
                                <<[Name |-> r.name, Text |-> r.text]>>],
                      ret |-> TRUE]
                ELSE ScanIter(a)))))

\* the lexer the last call was made on
PreSelf == [Input |-> Input, Matchers |-> pre.Matchers,
            currentInput |-> pre.currentInput,
            currentToken |-> pre.currentToken, Error |-> pre.Error]

\* C17: the self-recursive Scan and the iterative scan step agree: every
\* Scan call, after any calls before it, left the lexer (cursor, token,
\* error, matchers) and returned the value that the iterative step gives on
\* the lexer the call was made on, and the two agree on the call that
\* could come next
C17_IterativeEquivalent ==
    /\ lastOp = "Scan" =>
          /\ ScanIter(PreSelf).l = Self
          /\ ScanIter(PreSelf).ret = ret
    /\ ScanIter(Self).l = Scan(Self).l
    /\ ScanIter(Self).ret = Scan(Self).ret

\* a Scan call that went round after a skip and returned a token, on a
\* lexer that carried the error of an earlier call
C17_Witness ==
    /\ lastOp = "Scan"
    /\ Len(passes) >= 2
    /\ ret
    /\ pre.Error # NoError
    /\ ScanIter(PreSelf).ret
    /\ ScanIter(PreSelf).l.currentToken = currentToken

\* C18: a Scan or Reset call leaves the matcher list and Input as they
\* were; an AddMatcher call leaves the cursor, the current token, the error
\* and Input as they were; after any call the matchers that were in the
\* list are still there, at the same places
C18_Frame ==
    [][/\ lastOp' \in {"Scan", "Reset"} =>
             /\ Matchers' = Matchers
             /\ Input' = Input
       /\ lastOp' = "AddMatcher" =>
             /\ currentInput' = currentInput
             /\ currentToken' = currentToken
             /\ Error' = Error
             /\ Input' = Input
       /\ Len(Matchers') >= Len(Matchers)
       /\ SubSeq(Matchers', 1, Len(Matchers)) = Matchers]_vars

\* AddMatcher was called on a lexer that a failed Scan had left with an
\* error and the cursor past the start, and that had matchers already
C18_Witness ==
    /\ lastOp = "AddMatcher"
    /\ scanned
    /\ pre.Matchers # <<>>
    /\ Error # NoError /\ Error = pre.Error
    /\ currentInput # Input /\ currentInput = pre.currentInput

\* the lexer on text with the matcher list ms, the cursor at the start, no
\* token and no error
Fresh(text, ms) ==
    [Input |-> text, Matchers |-> ms, currentInput |-> text,
     currentToken |-> <<>>, Error |-> <<>>]

\* AddMatcher of each element of ms in order, the last one last
RECURSIVE AddEach(_, _)
AddEach(l, ms) ==
    IF ms = <<>> THEN l
    ELSE AddMatcher(AddEach(l, SubSeq(ms, 1, Len(ms) - 1)), ms[Len(ms)])

\* C19: NewLexer(text) is the lexer with no matchers, the cursor at the
\* start of text, no token and no error; an AddMatcher call makes the list
\* one longer, the new matcher last and the others as before;
\* NewLexerWithMatchers(text, ms) is NewLexer(text) after AddMatcher of
\* each element of ms in order, which is the fresh lexer with the list ms
C19_Constructors ==
    /\ NewLexer(Input) = Fresh(Input, <<>>)
    /\ lastOp = "AddMatcher" =>
          /\ Len(Matchers) = Len(pre.Matchers) + 1
          /\ SubSeq(Matchers, 1, Len(pre.Matchers)) = pre.Matchers
          /\ Matchers[Len(Matchers)] \in MatcherPool
    /\ \A fn \in MatcherPool :
          AddMatcher(Self, fn).Matchers = Matchers \o <<fn>>
    /\ \A ms \in MatcherLists \cup {Matchers} :
          /\ NewLexerWithMatchers(Input, ms) = AddEach(NewLexer(Input), ms)
          /\ NewLexerWithMatchers(Input, ms) = Fresh(Input, ms)
    /\ lastOp = "New" => Self = Fresh(Input, Matchers)

\* two different matchers were added one after the other to a lexer made
\* without matchers, which is now as NewLexerWithMatchers makes it
C19_Witness ==
    /\ lastOp = "AddMatcher"
    /\ ~scanned
    /\ Input # <<>>
    /\ Len(Matchers) = 2
    /\ Matchers[1] # Matchers[2]
    /\ Self = NewLexerWithMatchers(Input, Matchers)

====
